---- MODULE Spec2Model ----
(***************************************************************************)
(* Version-bump engine of the dotfiles repository: bump-conan.py and       *)
(* bump-vcpkg.py.  Strings that the code takes apart (URLs, versions) are  *)
(* sequences of one-character strings.  A YAML document is modelled by the *)
(* structure ruamel.yaml loads it into: an ordered mapping is a sequence   *)
(* of [key, val] pairs, and a mapping key carries the Python type the      *)
(* loader gives it.                                                        *)
(***************************************************************************)
EXTENDS Integers, Sequences, FiniteSets, TLC

VARIABLES
    variant,    \* "conan" (bump-conan.py), "vcpkg" (bump-vcpkg.py), "editor"
    args,       \* parsed command line of the invocation
    env,        \* the environment of the run: gh on PATH, upstream trunk
    pc,         \* position of main()
    loc,        \* locals of main(): folder, tarball_url, digest, branch
    wt,         \* files of the working tree
    git,        \* repository: branches, HEAD, branch tips, index, remote
    calls,      \* history: calls of update_conandata / update_config
    issued,     \* history: external commands issued by run() in this run
    writes,     \* history: files written in this run
    out,        \* messages printed in this run
    exitCode,   \* process exit status, -1 while running
    runs,       \* number of invocations so far
    snap        \* history: working tree and repository when the run began

vars == <<variant, args, env, pc, loc, wt, git, calls, issued, writes, out,
          exitCode, runs, snap>>

-----------------------------------------------------------------------------
(* Bounds *)

\* longest history of editor calls in the editor specification
MaxCalls == 3
\* number of invocations of a workflow on the same checkout
MaxRuns == 2

-----------------------------------------------------------------------------
(* Strings *)

Digit == {"0", "1", "2", "3", "4", "5", "6", "7", "8", "9"}

Letter ==
    {"a", "b", "c", "d", "e", "f", "g", "h", "i", "j", "k", "l", "m",
     "n", "o", "p", "q", "r", "s", "t", "u", "v", "w", "x", "y", "z",
     "A", "B", "C", "D", "E", "F", "G", "H", "I", "J", "K", "L", "M",
     "N", "O", "P", "Q", "R", "S", "T", "U", "V", "W", "X", "Y", "Z"}

\* the class [A-Za-z0-9_-] of the pre-release suffix
SuffixCh == Letter \cup Digit \cup {"_", "-"}

SetMax(S) == CHOOSE x \in S : \A y \in S : y <= x

SetMin(S) == CHOOSE x \in S : \A y \in S : x <= y

\* s[from..], the Python slice s[from-1:]
Tail2(s, from) == SubSeq(s, from, Len(s))

StartsWith(s, p, lit) ==
    /\ p >= 1
    /\ p + Len(lit) - 1 <= Len(s)
    /\ SubSeq(s, p, p + Len(lit) - 1) = lit

\* the position before the first of `stops`, n when there is none
StopBefore(stops, n) == IF stops = {} THEN n ELSE SetMin(stops) - 1

\* last position of the longest run of characters of C that starts at i
\* (i - 1 when s[i] is not in C): a greedy C*
RunEnd(s, i, C) == StopBefore({j \in i..Len(s) : s[j] \notin C}, Len(s))

\* the lookahead (?=\.(?:tar\.gz|zip)) at position p
ArchiveSuffixAt(s, p) ==
    \/ StartsWith(s, p, <<".", "t", "a", "r", ".", "g", "z">>)
    \/ StartsWith(s, p, <<".", "z", "i", "p">>)

\* \d+(?:[A-Za-z0-9_-]*)? after the second dot, the second group ending at e2
ThirdGroupEnds(s, e1, e2) ==
    IF /\ e2 >= e1 + 2
       /\ e2 + 1 <= Len(s) /\ s[e2 + 1] = "."
       /\ e2 + 2 <= Len(s) /\ s[e2 + 2] \in Digit
    THEN (e2 + 2)..RunEnd(s, e2 + 2, SuffixCh)
    ELSE {}

\* \.\d+ and the rest after the first group, which started at i and ends at e1
SecondGroupEnds(s, i, e1) ==
    IF e1 >= i /\ e1 + 1 <= Len(s) /\ s[e1 + 1] = "."
    THEN ThirdGroupEnds(s, e1, RunEnd(s, e1 + 2, Digit))
    ELSE {}

\* \d+\.\d+\.\d+(?:[A-Za-z0-9_-]*)? matched at position i: the set of end
\* positions the regex engine can stop at (empty: no match at i)
VersionEnds(s, i) == SecondGroupEnds(s, i, RunEnd(s, i, Digit))

NoMatch == [start |-> 0, end |-> 0, v |-> FALSE]

MaxOrZero(S) == IF S = {} THEN 0 ELSE SetMax(S)

\* the end the greedy engine settles on: the longest one that satisfies the
\* lookahead when anchored, the longest one otherwise (0: none)
PickEnd(s, i, anchored) ==
    MaxOrZero({e \in VersionEnds(s, i) : anchored => ArchiveSuffixAt(s, e + 1)})

\* the match object for a match from i to e (e = 0: no match)
MatchTo(i, e, v) == IF e > 0 THEN [start |-> i, end |-> e, v |-> v] ELSE NoMatch

\* (v?)(version) at position i; v? is greedy, so the "v" is tried first
\* (and a version cannot start at a "v")
MatchAt(s, i, anchored) ==
    IF s[i] = "v"
    THEN MatchTo(i, IF i + 1 <= Len(s) THEN PickEnd(s, i + 1, anchored) ELSE 0, TRUE)
    ELSE MatchTo(i, PickEnd(s, i, anchored), FALSE)

\* the match of `hits` that starts first
Leftmost(hits) ==
    IF hits = {} THEN NoMatch
    ELSE CHOOSE m \in hits : \A n \in hits : m.start <= n.start

\* pattern.search: the match at the leftmost position that has one
Search(s, anchored) ==
    Leftmost({MatchAt(s, i, anchored) : i \in 1..Len(s)} \ {NoMatch})

-----------------------------------------------------------------------------
(* Ordered mappings (ruamel.yaml CommentedMap) *)

\* DoubleQuotedScalarString(version): a str key
DoubleQuotedScalarString(version) == [ty |-> "str", s |-> version]

\* a key the YAML loader resolved to a float (an unquoted key such as 1.0)
FloatKey(text) == [ty |-> "float", s |-> text]

\* Python `key in mapping`: equal type-aware keys (a str never equals a float)
HasKey(m, k) == \E i \in 1..Len(m) : m[i].key = k

\* mapping[key]
Lookup(m, k) == m[CHOOSE i \in 1..Len(m) : m[i].key = k].val

RemoveKey(m, k) == SelectSeq(m, LAMBDA e : e.key # k)

\* CommentedMap.insert(pos, key, value): an existing key is dropped first
MapInsert(m, pos, k, v) ==
    LET r == RemoveKey(m, k)
        p == IF pos > Len(r) THEN Len(r) ELSE pos
    IN  SubSeq(r, 1, p) \o <<[key |-> k, val |-> v]>> \o SubSeq(r, p + 1, Len(r))

-----------------------------------------------------------------------------
(* Values the model draws its inputs from *)

V100 == <<"1", ".", "0", ".", "0">>
V101 == <<"1", ".", "0", ".", "1">>
V10 == <<"1", ".", "0">>

\* "h/v1.0.0.tar.gz": a "v" tag with an archive extension
UrlTgz == <<"h", "/", "v", "1", ".", "0", ".", "0", ".", "t", "a", "r", ".", "g", "z">>
\* "h/2.3.4/p-1.0.0.zip": an earlier version-like path segment, no "v"
UrlZip ==
    <<"h", "/", "2", ".", "3", ".", "4", "/", "p", "-", "1", ".", "0", ".", "0", ".", "z", "i", "p">>
\* "h/latest": no version-shaped substring
UrlNone == <<"h", "/", "l", "a", "t", "e", "s", "t">>

\* the digest of the bytes served at url, under algorithm alg
Digest(alg, url) == [alg |-> alg, of |-> url]

Entry(url) == [url |-> url, sha256 |-> Digest("sha256", url)]

\* a value of the versions mapping: folder is its content, obj the node that
\* holds it (two entries with one obj share a node, which the YAML dump
\* writes as an anchor and an alias)
FolderVal(o, f) == [obj |-> o, folder |-> f]

\* copy.deepcopy(val): the same content in a node no entry of m holds
deepcopy(val, m) ==
    [val EXCEPT !.obj = 1 + SetMax({0} \cup {m[i].val.obj : i \in 1..Len(m)})]

Pair(k, v) == [key |-> k, val |-> v]

NoConandata == [exists |-> FALSE, sources |-> <<>>, patches |-> "p0"]

Conandata(sources) == [exists |-> TRUE, sources |-> sources, patches |-> "p0"]

NoConfig == [exists |-> FALSE, versions |-> <<>>]

Config(versions) == [exists |-> TRUE, versions |-> versions]

-----------------------------------------------------------------------------
(* bump-conan.py: pure parts *)

\* a compute_sha256 that hashes the archive of the template entry
compute_sha256_template(url) == Digest("sha256", UrlTgz)

\* compute_sha256(url) once the download succeeded
compute_sha256(url) == Digest("sha256", url)

\* m if it is a match, else the match the fallback pattern gives
OrElse(m, fallback) == IF m # NoMatch THEN m ELSE fallback

\* the RuntimeError of lines 109-111
NoSources == [ok |-> FALSE, url |-> <<>>, err |-> "no sources block"]

\* the RuntimeError of line 122
NoPattern == [ok |-> FALSE, url |-> <<>>, err |-> "unrecognisable version pattern"]

\* prefix + new_version + suffix, without the leading "v"
Substitute_dropv(sample_url, m, new_version) ==
    IF m = NoMatch THEN NoPattern
    ELSE [ok |-> TRUE,
          url |-> SubSeq(sample_url, 1, m.start - 1)
                  \o new_version
                  \o Tail2(sample_url, m.end + 1),
          err |-> ""]

\* lines 121-126: the RuntimeError when there is no match, else
\* prefix + leading_v + new_version + suffix for the match m
Substitute(sample_url, m, new_version) ==
    IF m = NoMatch THEN NoPattern
    ELSE [ok |-> TRUE,
          url |-> SubSeq(sample_url, 1, m.start - 1)
                  \o (IF m.v THEN <<"v">> ELSE <<>>)
                  \o new_version
                  \o Tail2(sample_url, m.end + 1),
          err |-> ""]

\* sample_url = next(iter(sources.values()))["url"]
SampleUrlOf(data) == data.sources[1].val.url

\* a derive_tarball_url that only has the fallback pattern
derive_tarball_url_unanchored(data, new_version) ==
    IF data.sources = <<>> THEN NoSources
    ELSE Substitute(SampleUrlOf(data), Search(SampleUrlOf(data), FALSE), new_version)

\* a derive_tarball_url that only has the extension-anchored pattern
derive_tarball_url_nofallback(data, new_version) ==
    IF data.sources = <<>> THEN NoSources
    ELSE Substitute(SampleUrlOf(data), Search(SampleUrlOf(data), TRUE), new_version)

\* a derive_tarball_url that forgets the leading "v"
derive_tarball_url_dropv(data, new_version) ==
    IF data.sources = <<>> THEN NoSources
    ELSE Substitute_dropv(SampleUrlOf(data),
                          OrElse(Search(SampleUrlOf(data), TRUE),
                                 Search(SampleUrlOf(data), FALSE)),
                          new_version)

\* derive_tarball_url(data, new_version); ok = FALSE is the RuntimeError
derive_tarball_url(data, new_version) ==
    IF data.sources = <<>> THEN NoSources
    ELSE Substitute(SampleUrlOf(data),
                    OrElse(Search(SampleUrlOf(data), TRUE),
                           Search(SampleUrlOf(data), FALSE)),
                    new_version)

\* the URL main() builds from --repo-url
RepoTarballUrl(version) ==
    <<"r", "/", "a", "/", "v">> \o version \o <<".", "t", "a", "r", ".", "g", "z">>

\* an update_conandata that writes back a document holding only the sources
update_conandata_clobber(data, version, url, sha256) ==
    LET quoted_version == DoubleQuotedScalarString(version)
        entry == [url |-> url, sha256 |-> sha256]
    IN  IF HasKey(data.sources, quoted_version)
        THEN [ret |-> FALSE, data |-> data, wrote |-> FALSE, msg |-> "skip"]
        ELSE [ret |-> TRUE,
              data |-> [exists |-> TRUE,
                        sources |-> MapInsert(data.sources, 0, quoted_version, entry),
                        patches |-> "none"],
              wrote |-> TRUE,
              msg |-> "info"]

\* update_conandata without the `quoted_version in sources` test
update_conandata_noguard(data, version, url, sha256) ==
    [ret |-> TRUE,
     data |-> [data EXCEPT !.sources =
                  MapInsert(@, 0, DoubleQuotedScalarString(version),
                            [url |-> url, sha256 |-> sha256])],
     wrote |-> TRUE,
     msg |-> "info"]

\* update_conandata that adds the new entry after the existing ones
update_conandata_append(data, version, url, sha256) ==
    IF HasKey(data.sources, DoubleQuotedScalarString(version))
    THEN [ret |-> FALSE, data |-> data, wrote |-> FALSE, msg |-> "skip"]
    ELSE [ret |-> TRUE,
          data |-> [data EXCEPT !.sources =
                       MapInsert(@, Len(@), DoubleQuotedScalarString(version),
                                 [url |-> url, sha256 |-> sha256])],
          wrote |-> TRUE,
          msg |-> "info"]

\* update_conandata that writes the entry in front of the text of the
\* mapping without looking for the key
update_conandata_dup(data, version, url, sha256) ==
    [ret |-> TRUE,
     data |-> [data EXCEPT !.sources =
                  <<Pair(DoubleQuotedScalarString(version),
                         [url |-> url, sha256 |-> sha256])>> \o @],
     wrote |-> TRUE,
     msg |-> "info"]

\* update_conandata(path_, version, url, sha256) on the loaded document:
\* ret is the returned bool, wrote tells whether save_yaml ran
update_conandata(data, version, url, sha256) ==
    LET quoted_version == DoubleQuotedScalarString(version)
        entry == [url |-> url, sha256 |-> sha256]
    IN  IF HasKey(data.sources, quoted_version)
        THEN [ret |-> FALSE, data |-> data, wrote |-> FALSE, msg |-> "skip"]
        ELSE [ret |-> TRUE,
              data |-> [data EXCEPT !.sources = MapInsert(@, 0, quoted_version, entry)],
              wrote |-> TRUE,
              msg |-> "info"]

\* an update_config that makes up a record when the mapping has none
update_config_fabricate(cfg, version) ==
    LET quoted_version == DoubleQuotedScalarString(version)
    IN  IF ~cfg.exists
        THEN [ret |-> FALSE, data |-> cfg, wrote |-> FALSE, msg |-> "warn-not-found"]
        ELSE IF HasKey(cfg.versions, quoted_version)
        THEN [ret |-> FALSE, data |-> cfg, wrote |-> FALSE, msg |-> "skip"]
        ELSE LET most_recent_val ==
                     IF cfg.versions = <<>>
                     THEN FolderVal(1, "all")
                     ELSE deepcopy(Lookup(cfg.versions, cfg.versions[1].key),
                                   cfg.versions)
             IN  [ret |-> TRUE,
                  data |-> [cfg EXCEPT !.versions =
                               MapInsert(@, 0, quoted_version, most_recent_val)],
                  wrote |-> TRUE,
                  msg |-> "info"]

\* an update_config that inserts the template value itself, not a copy
update_config_alias(cfg, version) ==
    LET quoted_version == DoubleQuotedScalarString(version)
    IN  IF ~cfg.exists
        THEN [ret |-> FALSE, data |-> cfg, wrote |-> FALSE, msg |-> "warn-not-found"]
        ELSE IF HasKey(cfg.versions, quoted_version)
        THEN [ret |-> FALSE, data |-> cfg, wrote |-> FALSE, msg |-> "skip"]
        ELSE IF cfg.versions = <<>>
        THEN [ret |-> FALSE, data |-> cfg, wrote |-> FALSE, msg |-> "warn-empty"]
        ELSE LET most_recent_key == cfg.versions[1].key
                 most_recent_val == Lookup(cfg.versions, most_recent_key)
             IN  [ret |-> TRUE,
                  data |-> [cfg EXCEPT !.versions =
                               MapInsert(@, 0, quoted_version, most_recent_val)],
                  wrote |-> TRUE,
                  msg |-> "info"]

\* update_config(path_, version) on the file at path_
update_config(cfg, version) ==
    LET quoted_version == DoubleQuotedScalarString(version)
    IN  IF ~cfg.exists
        THEN [ret |-> FALSE, data |-> cfg, wrote |-> FALSE, msg |-> "warn-not-found"]
        ELSE IF HasKey(cfg.versions, quoted_version)
        THEN [ret |-> FALSE, data |-> cfg, wrote |-> FALSE, msg |-> "skip"]
        ELSE IF cfg.versions = <<>>
        THEN [ret |-> FALSE, data |-> cfg, wrote |-> FALSE, msg |-> "warn-empty"]
        ELSE LET most_recent_key == cfg.versions[1].key
                 most_recent_val == deepcopy(Lookup(cfg.versions, most_recent_key), cfg.versions)
             IN  [ret |-> TRUE,
                  data |-> [cfg EXCEPT !.versions =
                               MapInsert(@, 0, quoted_version, most_recent_val)],
                  wrote |-> TRUE,
                  msg |-> "info"]

\* one entry of the call history: the mapping (sources or versions) before
\* and after the call, and what the call returned and did
CallRec(fn, version, url, sha, r, before) ==
    [fn |-> fn, version |-> version, url |-> url, sha |-> sha,
     ret |-> r.ret, wrote |-> r.wrote, msg |-> r.msg,
     before |-> before,
     after |-> IF fn = "update_conandata" THEN r.data.sources ELSE r.data.versions,
     doc |-> r.data]

-----------------------------------------------------------------------------
(* State shapes *)

Master == <<"m", "a", "s", "t", "e", "r">>

\* f"{args.prefix}/{args.recipe}-{args.version}" with the default prefix
BranchName(version) == <<"j", "r", "/", "p", "-">> \o version

Versions == {V100, V101, V10}

BranchNames == {Master} \cup {BranchName(v) : v \in Versions}

NoDigest == Digest("none", <<>>)

Portfile(repo, shaLine, sha) == [repo |-> repo, shaLine |-> shaLine, sha512 |-> sha]

Tree(conandata, config, json, portfile, db) ==
    [conandata |-> conandata, config |-> config, vcpkg_json |-> json,
     portfile |-> portfile, versiondb |-> db]

\* a working tree that only holds the two YAML documents
YamlTree(conandata, config) ==
    Tree(conandata, config, V100, Portfile(FALSE, FALSE, NoDigest), V100)

NoArgs == [version |-> <<>>, no_build |-> FALSE, no_pr |-> FALSE, repo_url |-> FALSE]

NoLoc == [folder |-> "all", tarball_url |-> <<>>, sha |-> NoDigest, tmp |-> FALSE]

\* the sources mappings the documents start from (keys unique)
InitSources ==
    {<<>>,
     <<Pair(DoubleQuotedScalarString(V100), Entry(UrlTgz))>>,
     <<Pair(DoubleQuotedScalarString(V101), Entry(UrlZip)),
       Pair(DoubleQuotedScalarString(V100), Entry(UrlTgz))>>,
     <<Pair(FloatKey(V10), Entry(UrlNone))>>}

\* the versions mappings the companion index starts from (keys unique)
InitVersions ==
    {<<>>,
     <<Pair(DoubleQuotedScalarString(V100), FolderVal(1, "all"))>>,
     <<Pair(DoubleQuotedScalarString(V101), FolderVal(1, "all")),
       Pair(DoubleQuotedScalarString(V100), FolderVal(2, "old"))>>,
     <<Pair(FloatKey(V10), FolderVal(1, "old"))>>}

InitConfigs == {NoConfig} \cup {Config(m) : m \in InitVersions}

-----------------------------------------------------------------------------
(* The repository the workflows drive (git, as the commands below use it) *)

Files == {"conandata", "config", "vcpkg_json", "portfile", "versiondb"}

\* files whose content in tree a differs from tree b
Differing(a, b) == {f \in Files : a[f] # b[f]}

\* files with local changes: working tree or index differs from HEAD
Dirty(g, w) == Differing(w, g.tip[g.head]) \cup Differing(g.index, g.tip[g.head])

\* per file: the local change if there is one, else the content in `target`
CarryOver(local, base, target) ==
    Tree(IF local.conandata # base.conandata THEN local.conandata ELSE target.conandata,
         IF local.config # base.config THEN local.config ELSE target.config,
         IF local.vcpkg_json # base.vcpkg_json THEN local.vcpkg_json ELSE target.vcpkg_json,
         IF local.portfile # base.portfile THEN local.portfile ELSE target.portfile,
         IF local.versiondb # base.versiondb THEN local.versiondb ELSE target.versiondb)

\* git checkout b succeeds when b exists and no locally changed file differs
\* between HEAD and b; local changes are carried over
CanCheckout(g, w, b) ==
    /\ b \in g.branches
    /\ \A f \in Dirty(g, w) : g.tip[g.head][f] = g.tip[b][f]

\* the commit messages main() uses
BumpMsg(version) == <<"bump", version>>

XAddMsg == <<"x-add", <<>>>>

NotPushed == [has |-> FALSE, log |-> <<>>]

-----------------------------------------------------------------------------
(* run(): issue one external command *)

\* run(cmd) with check=False: the exit status of the command is ignored
run_nocheck(cmd, can, ok, next) ==
    /\ ok => can
    /\ issued' = Append(issued, [cmd |-> cmd, ok |-> ok, forced |-> ~can,
                                 nw |-> Len(writes)])
    /\ pc' = next
    /\ exitCode' = exitCode

\* run(cmd): subprocess.run(..., check=True).  A non-zero exit raises
\* CalledProcessError, which nothing catches: the process ends with status 1.
\* `can` tells whether the state of the repository lets the command succeed
\* (a command that can succeed may still fail: network, disk, hooks); the
\* history records a failure the repository forced as `forced`.
run(cmd, can, ok, next) ==
    /\ ok => can
    /\ issued' = Append(issued, [cmd |-> cmd, ok |-> ok, forced |-> ~can,
                                 nw |-> Len(writes)])
    /\ pc' = IF ok THEN next ELSE "exit"
    /\ exitCode' = IF ok THEN exitCode ELSE 1

\* an uncaught exception or sys.exit(message): status 1
Die(msg) ==
    /\ pc' = "exit"
    /\ exitCode' = 1
    /\ out' = Append(out, msg)

\* main() returns: status 0
Return(msg) ==
    /\ pc' = "exit"
    /\ exitCode' = 0
    /\ out' = Append(out, msg)

-----------------------------------------------------------------------------
(* Initial states of the workflows *)

\* the tree the upstream trunk has once somebody merged the bump of `version`
Bumped(t, version) ==
    LET url == RepoTarballUrl(version)
    IN  Tree(IF t.conandata.exists
             THEN update_conandata(t.conandata, version, url, compute_sha256(url)).data
             ELSE t.conandata,
             update_config(t.config, version).data,
             version,
             [t.portfile EXCEPT !.sha512 = Digest("sha512", url)],
             version)

Repo(tree, existing) ==
    [branches |-> {Master} \cup existing,
     head |-> Master,
     tip |-> [b \in BranchNames |-> tree],
     log |-> [b \in BranchNames |-> <<>>],
     index |-> tree,
     origin |-> [b \in BranchNames |-> NotPushed]]

ConanTrees ==
    {YamlTree(Conandata(m), g) : m \in InitSources, g \in InitConfigs}

VcpkgTrees ==
    {Tree(NoConandata, NoConfig, V100, Portfile(repo, shaLine, Digest("sha512", UrlTgz)), V100) :
        repo \in BOOLEAN, shaLine \in BOOLEAN}

WorkflowVersions == {V100, V101}

StartPc(v) == IF v = "conan" THEN "detect_folder" ELSE "checkout_master"

Init ==
    /\ variant \in {"conan", "vcpkg"}
    /\ args \in [version : WorkflowVersions, no_build : BOOLEAN, no_pr : BOOLEAN,
                 repo_url : BOOLEAN]
    /\ variant = "vcpkg" => ~args.no_build /\ ~args.no_pr /\ ~args.repo_url
    /\ wt \in IF variant = "conan" THEN ConanTrees ELSE VcpkgTrees
    /\ env \in [gh : BOOLEAN, upstream : {wt, Bumped(wt, args.version)}]
    /\ \E existing \in {{}, {BranchName(args.version)}} : git = Repo(wt, existing)
    /\ pc = StartPc(variant)
    /\ loc = NoLoc
    /\ calls = <<>>
    /\ issued = <<>>
    /\ writes = <<>>
    /\ out = <<>>
    /\ exitCode = -1
    /\ runs = 1
    /\ snap = [wt |-> wt, git |-> git, prev |-> <<>>]

\* what the frame of a step leaves alone
Fixed == <<variant, args, env, runs, snap>>

-----------------------------------------------------------------------------
(* SYNC and BRANCH: the same five commands in both scripts *)

\* run(["git", "checkout", "master"])
GitCheckoutMaster ==
    /\ pc = "checkout_master"
    /\ \E ok \in BOOLEAN :
          /\ run("git checkout master", CanCheckout(git, wt, Master), ok, "fetch_upstream")
          /\ IF ok
             THEN /\ wt' = CarryOver(wt, git.tip[git.head], git.tip[Master])
                  /\ git' = [git EXCEPT
                                !.index = CarryOver(git.index, git.tip[git.head], git.tip[Master]),
                                !.head = Master]
             ELSE UNCHANGED <<wt, git>>
    /\ UNCHANGED <<Fixed, loc, calls, writes, out>>

\* run(["git", "fetch", args.rebase_remote])
GitFetch ==
    /\ pc = "fetch_upstream"
    /\ \E ok \in BOOLEAN : run("git fetch upstream", TRUE, ok, "rebase")
    /\ UNCHANGED <<Fixed, loc, wt, git, calls, writes, out>>

\* run(["git", "rebase", f"{args.rebase_remote}/master"]): git refuses to
\* rebase over local changes; otherwise the trunk becomes the upstream trunk
GitRebase ==
    /\ pc = "rebase"
    /\ \E ok \in BOOLEAN :
          /\ run("git rebase upstream/master", Dirty(git, wt) = {}, ok, "push_trunk")
          /\ IF ok
             THEN /\ wt' = env.upstream
                  /\ git' = [git EXCEPT !.tip[git.head] = env.upstream,
                                        !.index = env.upstream]
             ELSE UNCHANGED <<wt, git>>
    /\ UNCHANGED <<Fixed, loc, calls, writes, out>>

\* run(["git", "push"]): publishes the trunk
GitPushTrunk ==
    /\ pc = "push_trunk"
    /\ \E ok \in BOOLEAN :
          /\ run("git push", TRUE, ok, "checkout_b")
          /\ git' = IF ok
                    THEN [git EXCEPT !.origin[git.head] =
                                         [has |-> TRUE, log |-> git.log[git.head]]]
                    ELSE git
    /\ UNCHANGED <<Fixed, loc, wt, calls, writes, out>>

\* git branch: the branch is created, HEAD stays where it is
GitCheckoutNewBranch_stay ==
    /\ pc = "checkout_b"
    /\ LET branch == BranchName(args.version)
       IN  \E ok \in BOOLEAN :
              /\ run("git checkout -b", branch \notin git.branches, ok,
                     IF variant = "conan" THEN "update_conandata" ELSE "read_portfile")
              /\ git' = IF ok
                        THEN [git EXCEPT !.branches = @ \cup {branch},
                                         !.tip[branch] = git.tip[git.head],
                                         !.log[branch] = git.log[git.head]]
                        ELSE git
    /\ UNCHANGED <<Fixed, loc, wt, calls, writes, out>>

\* git checkout -B: an existing branch is reset to HEAD and checked out
GitCheckoutNewBranch_reuse ==
    /\ pc = "checkout_b"
    /\ LET branch == BranchName(args.version)
       IN  \E ok \in BOOLEAN :
              /\ run("git checkout -b", TRUE, ok,
                     IF variant = "conan" THEN "update_conandata" ELSE "read_portfile")
              /\ git' = IF ok
                        THEN [git EXCEPT !.branches = @ \cup {branch},
                                         !.tip[branch] = git.tip[git.head],
                                         !.log[branch] = git.log[git.head],
                                         !.head = branch]
                        ELSE git
    /\ UNCHANGED <<Fixed, loc, wt, calls, writes, out>>

\* git checkout -b run with check=False: main() goes on when it fails
GitCheckoutNewBranch_nocheck ==
    /\ pc = "checkout_b"
    /\ LET branch == BranchName(args.version)
       IN  \E ok \in BOOLEAN :
              /\ run_nocheck("git checkout -b", branch \notin git.branches, ok,
                             IF variant = "conan" THEN "update_conandata"
                                                  ELSE "read_portfile")
              /\ git' = IF ok
                        THEN [git EXCEPT !.branches = @ \cup {branch},
                                         !.tip[branch] = git.tip[git.head],
                                         !.log[branch] = git.log[git.head],
                                         !.head = branch]
                        ELSE git
    /\ UNCHANGED <<Fixed, loc, wt, calls, writes, out>>

\* run(["git", "checkout", "-b", branch]): fails when the branch exists
GitCheckoutNewBranch ==
    /\ pc = "checkout_b"
    /\ LET branch == BranchName(args.version)
       IN  \E ok \in BOOLEAN :
              /\ run("git checkout -b", branch \notin git.branches, ok,
                     IF variant = "conan" THEN "update_conandata" ELSE "read_portfile")
              /\ git' = IF ok
                        THEN [git EXCEPT !.branches = @ \cup {branch},
                                         !.tip[branch] = git.tip[git.head],
                                         !.log[branch] = git.log[git.head],
                                         !.head = branch]
                        ELSE git
    /\ UNCHANGED <<Fixed, loc, wt, calls, writes, out>>

-----------------------------------------------------------------------------
(* bump-conan.py: main() *)

\* detect_folder(): the folder of the first entry of config.yml, else "all"
detect_folder(cfg) ==
    IF ~cfg.exists THEN "all"
    ELSE IF cfg.versions = <<>> THEN "all"
    ELSE cfg.versions[1].val.folder

\* conandata.yml of the model's recipe lives in the folder "all"
ConandataAt(w, folder) == IF folder = "all" THEN w.conandata ELSE NoConandata

\* folder = detect_folder(); sys.exit when conandata.yml is not there
ConanDetectFolder ==
    /\ variant = "conan"
    /\ pc = "detect_folder"
    /\ LET folder == detect_folder(wt.config)
       IN  /\ loc' = [loc EXCEPT !.folder = folder]
           /\ IF ConandataAt(wt, folder).exists
              THEN /\ pc' = "tarball_url"
                   /\ UNCHANGED <<exitCode, out>>
              ELSE Die("error: conandata.yml not found")
    /\ UNCHANGED <<Fixed, wt, git, calls, issued, writes>>

\* the tarball URL: built from --repo-url, or derived from the first entry
\* of the conandata.yml that is in the working tree at this point
ConanTarballUrl ==
    /\ variant = "conan"
    /\ pc = "tarball_url"
    /\ LET d == IF args.repo_url
                THEN [ok |-> TRUE, url |-> RepoTarballUrl(args.version), err |-> ""]
                ELSE derive_tarball_url(ConandataAt(wt, loc.folder), args.version)
       IN  IF d.ok
           THEN /\ loc' = [loc EXCEPT !.tarball_url = d.url]
                /\ pc' = "compute_sha256"
                /\ out' = Append(out, "info: using tarball url")
                /\ UNCHANGED exitCode
           ELSE /\ Die(d.err)
                /\ UNCHANGED loc
    /\ UNCHANGED <<Fixed, wt, git, calls, issued, writes>>

\* a download whose failure is reported and then ignored
ConanComputeSha_swallow ==
    /\ variant = "conan"
    /\ pc = "compute_sha256"
    /\ \E fetched \in BOOLEAN :
          /\ loc' = [loc EXCEPT !.sha = IF fetched THEN compute_sha256(loc.tarball_url)
                                        ELSE NoDigest]
          /\ out' = IF fetched THEN out ELSE Append(out, "urlopen failed")
          /\ pc' = "checkout_master"
          /\ UNCHANGED exitCode
    /\ UNCHANGED <<Fixed, wt, git, calls, issued, writes>>

\* sha256 = compute_sha256(tarball_url); a failed download raises
ConanComputeSha ==
    /\ variant = "conan"
    /\ pc = "compute_sha256"
    /\ \E fetched \in BOOLEAN :
          IF fetched
          THEN /\ loc' = [loc EXCEPT !.sha = compute_sha256(loc.tarball_url)]
               /\ pc' = "checkout_master"
               /\ UNCHANGED <<exitCode, out>>
          ELSE /\ Die("urlopen failed")
               /\ UNCHANGED loc
    /\ UNCHANGED <<Fixed, wt, git, calls, issued, writes>>

\* main() that does not look at what update_conandata returned
ConanUpdateConandata_ignore ==
    /\ variant = "conan"
    /\ pc = "update_conandata"
    /\ LET data == ConandataAt(wt, loc.folder)
           r == update_conandata(data, args.version, loc.tarball_url, loc.sha)
       IN  /\ data.exists
           /\ wt' = [wt EXCEPT !.conandata = r.data]
           /\ calls' = Append(calls, CallRec("update_conandata", args.version,
                                             loc.tarball_url, loc.sha, r, data.sources))
           /\ writes' = IF r.wrote THEN Append(writes, "conandata") ELSE writes
           /\ pc' = "update_config"
           /\ out' = Append(out, r.msg)
           /\ UNCHANGED exitCode
    /\ UNCHANGED <<Fixed, loc, git, issued>>

\* if not update_conandata(...): print, return
ConanUpdateConandata ==
    /\ variant = "conan"
    /\ pc = "update_conandata"
    /\ LET data == ConandataAt(wt, loc.folder)
           r == update_conandata(data, args.version, loc.tarball_url, loc.sha)
       IN  IF ~data.exists
           THEN /\ Die("FileNotFoundError")
                /\ UNCHANGED <<wt, calls, writes>>
           ELSE /\ wt' = [wt EXCEPT !.conandata = r.data]
                /\ calls' = Append(calls, CallRec("update_conandata", args.version,
                                                  loc.tarball_url, loc.sha, r, data.sources))
                /\ writes' = IF r.wrote THEN Append(writes, "conandata") ELSE writes
                /\ IF r.ret
                   THEN /\ pc' = "update_config"
                        /\ out' = Append(out, r.msg)
                        /\ UNCHANGED exitCode
                   ELSE Return("info: nothing to commit")
    /\ UNCHANGED <<Fixed, loc, git, issued>>

\* update_config(configyml, args.version); the result is not looked at
ConanUpdateConfig ==
    /\ variant = "conan"
    /\ pc = "update_config"
    /\ LET r == update_config(wt.config, args.version)
       IN  /\ wt' = [wt EXCEPT !.config = r.data]
           /\ calls' = Append(calls, CallRec("update_config", args.version, <<>>,
                                             NoDigest, r, wt.config.versions))
           /\ writes' = IF r.wrote THEN Append(writes, "config") ELSE writes
           /\ out' = Append(out, r.msg)
    /\ pc' = IF args.no_build THEN "git_add" ELSE "build"
    /\ UNCHANGED <<Fixed, loc, git, issued, exitCode>>

\* run(f"conan create ...") unless --no-build
ConanBuild ==
    /\ variant = "conan"
    /\ pc = "build"
    /\ \E ok \in BOOLEAN : run("conan create", TRUE, ok, "git_add")
    /\ UNCHANGED <<Fixed, loc, wt, git, calls, writes, out>>

\* run(["git", "add", conandata, configyml]): git add fails, and stages
\* nothing, when one of the paths does not exist
ConanGitAdd ==
    /\ variant = "conan"
    /\ pc = "git_add"
    /\ \E ok \in BOOLEAN :
          /\ run("git add", wt.conandata.exists /\ wt.config.exists, ok, "commit")
          /\ git' = IF ok
                    THEN [git EXCEPT !.index.conandata = wt.conandata,
                                     !.index.config = wt.config]
                    ELSE git
    /\ UNCHANGED <<Fixed, loc, wt, calls, writes, out>>

\* run(["git", "commit", "-m", commit_msg]): commits the index on HEAD
ConanCommit ==
    /\ variant = "conan"
    /\ pc = "commit"
    /\ \E ok \in BOOLEAN :
          /\ run("git commit", git.index # git.tip[git.head], ok, "push_branch")
          /\ git' = IF ok
                    THEN [git EXCEPT !.tip[git.head] = git.index,
                                     !.log[git.head] = Append(@, BumpMsg(args.version))]
                    ELSE git
    /\ UNCHANGED <<Fixed, loc, wt, calls, writes, out>>

-----------------------------------------------------------------------------
(* bump-vcpkg.py: main() *)

\* fetch_tarball_sha512(url) once the download succeeded
fetch_tarball_sha512(url) == Digest("sha512", url)

\* update_vcpkg_json(path, new_version)
update_vcpkg_json(json, new_version) == new_version

\* update_portfile_sha512(path, new_sha): re.sub rewrites the SHA512 line
\* if there is one
update_portfile_sha512(portfile, new_sha) ==
    IF portfile.shaLine THEN [portfile EXCEPT !.sha512 = new_sha] ELSE portfile

\* the REPO line of portfile.cmake; sys.exit when there is none
VcpkgReadPortfile ==
    /\ variant = "vcpkg"
    /\ pc = "read_portfile"
    /\ IF wt.portfile.repo
       THEN /\ loc' = [loc EXCEPT !.tarball_url = RepoTarballUrl(args.version)]
            /\ pc' = "fetch_sha512"
            /\ UNCHANGED <<exitCode, out>>
       ELSE /\ Die("error: could not find REPO line")
            /\ UNCHANGED loc
    /\ UNCHANGED <<Fixed, wt, git, calls, issued, writes>>

\* sha512 = fetch_tarball_sha512(url); a failed download raises
VcpkgFetchSha ==
    /\ variant = "vcpkg"
    /\ pc = "fetch_sha512"
    /\ \E fetched \in BOOLEAN :
          IF fetched
          THEN /\ loc' = [loc EXCEPT !.sha = fetch_tarball_sha512(loc.tarball_url)]
               /\ pc' = "edit_json"
               /\ out' = Append(out, "info: downloading")
               /\ UNCHANGED exitCode
          ELSE /\ Die("urlopen failed")
               /\ UNCHANGED loc
    /\ UNCHANGED <<Fixed, wt, git, calls, issued, writes>>

\* update_vcpkg_json(vcpkg_json, version)
VcpkgEditJson ==
    /\ variant = "vcpkg"
    /\ pc = "edit_json"
    /\ wt' = [wt EXCEPT !.vcpkg_json = update_vcpkg_json(@, args.version)]
    /\ writes' = Append(writes, "vcpkg_json")
    /\ out' = Append(out, "edit: updated version")
    /\ pc' = "edit_portfile"
    /\ UNCHANGED <<Fixed, loc, git, calls, issued, exitCode>>

\* update_portfile_sha512(portfile, sha512)
VcpkgEditPortfile ==
    /\ variant = "vcpkg"
    /\ pc = "edit_portfile"
    /\ wt' = [wt EXCEPT !.portfile = update_portfile_sha512(@, loc.sha)]
    /\ writes' = Append(writes, "portfile")
    /\ out' = Append(out, "edit: updated SHA512")
    /\ pc' = "commit_port"
    /\ UNCHANGED <<Fixed, loc, git, calls, issued, exitCode>>

\* git commit -am: commits every changed tracked file; fails when there is
\* nothing to commit
CommitAll(cmd, msg, next) ==
    \E ok \in BOOLEAN :
        /\ run(cmd, Dirty(git, wt) # {}, ok, next)
        /\ git' = IF ok
                  THEN [git EXCEPT !.tip[git.head] = wt,
                                   !.index = wt,
                                   !.log[git.head] = Append(@, msg)]
                  ELSE git

\* run(["git", "commit", "-am", f"[{name}] Bump to {version}"])
VcpkgCommitPort ==
    /\ variant = "vcpkg"
    /\ pc = "commit_port"
    /\ CommitAll("git commit -am bump", BumpMsg(args.version), "rm_rf")
    /\ UNCHANGED <<Fixed, loc, wt, calls, writes, out>>

\* run("rm -rf installed packages downloads", shell=True)
VcpkgClean ==
    /\ variant = "vcpkg"
    /\ pc = "rm_rf"
    /\ \E ok \in BOOLEAN : run("rm -rf", TRUE, ok, "vcpkg_install")
    /\ UNCHANGED <<Fixed, loc, wt, git, calls, writes, out>>

\* run(["./vcpkg", "install", name]): the local build
VcpkgInstall ==
    /\ variant = "vcpkg"
    /\ pc = "vcpkg_install"
    /\ \E ok \in BOOLEAN : run("vcpkg install", TRUE, ok, "x_add_version")
    /\ UNCHANGED <<Fixed, loc, wt, git, calls, writes, out>>

\* run(["./vcpkg", "x-add-version", name, "--overwrite-version"]): vcpkg
\* regenerates the version database for the committed port
VcpkgXAddVersion ==
    /\ variant = "vcpkg"
    /\ pc = "x_add_version"
    /\ \E ok \in BOOLEAN :
          /\ run("vcpkg x-add-version", TRUE, ok, "commit_xadd")
          /\ wt' = IF ok THEN [wt EXCEPT !.versiondb = wt.vcpkg_json] ELSE wt
    /\ UNCHANGED <<Fixed, loc, git, calls, writes, out>>

\* run(["git", "commit", "-am", "x-add"])
VcpkgCommitXAdd ==
    /\ variant = "vcpkg"
    /\ pc = "commit_xadd"
    /\ CommitAll("git commit -am x-add", XAddMsg, "push_branch")
    /\ UNCHANGED <<Fixed, loc, wt, calls, writes, out>>

-----------------------------------------------------------------------------
(* PUSH and PR: the same in both scripts, but for --no-pr *)

\* a push that undoes the run's commits when it fails
GitPushBranch_rollback ==
    /\ pc = "push_branch"
    /\ LET branch == BranchName(args.version)
       IN  \E ok \in BOOLEAN :
              /\ run("git push -u", branch \in git.branches, ok, "pr")
              /\ git' = IF ok
                        THEN [git EXCEPT !.origin[branch] =
                                             [has |-> TRUE, log |-> git.log[branch]]]
                        ELSE [git EXCEPT !.log[branch] = git.log[Master],
                                         !.tip[branch] = git.tip[Master]]
    /\ UNCHANGED <<Fixed, loc, wt, calls, writes, out>>

\* run(["git", "push", "-u", args.push_remote, branch])
GitPushBranch ==
    /\ pc = "push_branch"
    /\ LET branch == BranchName(args.version)
       IN  \E ok \in BOOLEAN :
              /\ run("git push -u", branch \in git.branches, ok, "pr")
              /\ git' = IF ok
                        THEN [git EXCEPT !.origin[branch] =
                                             [has |-> TRUE, log |-> git.log[branch]]]
                        ELSE git
    /\ UNCHANGED <<Fixed, loc, wt, calls, writes, out>>

\* if args.no_pr: return   (bump-conan.py only)
PrSkipped ==
    /\ pc = "pr"
    /\ variant = "conan"
    /\ args.no_pr
    /\ pc' = "exit"
    /\ exitCode' = 0
    /\ UNCHANGED <<Fixed, loc, wt, git, calls, issued, writes, out>>

\* shutil.which("gh") finds gh: the PR body goes to a temporary file
PrWriteBody ==
    /\ pc = "pr"
    /\ ~args.no_pr
    /\ env.gh
    /\ writes' = Append(writes, "tmp")
    /\ loc' = [loc EXCEPT !.tmp = TRUE]
    /\ pc' = "gh_pr_create"
    /\ UNCHANGED <<Fixed, wt, git, calls, issued, out, exitCode>>

\* gh pr create run with check=False
PrCreate_nocheck ==
    /\ pc = "gh_pr_create"
    /\ \E ok \in BOOLEAN : run_nocheck("gh pr create", TRUE, ok, "unlink")
    /\ UNCHANGED <<Fixed, loc, wt, git, calls, writes, out>>

\* run(["gh", "pr", "create", "--fill", "--body-file", tmp.name, ...])
PrCreate ==
    /\ pc = "gh_pr_create"
    /\ \E ok \in BOOLEAN : run("gh pr create", TRUE, ok, "unlink")
    /\ UNCHANGED <<Fixed, loc, wt, git, calls, writes, out>>

\* os.unlink(tmp.name), and main() returns
PrUnlink ==
    /\ pc = "unlink"
    /\ loc' = [loc EXCEPT !.tmp = FALSE]
    /\ pc' = "exit"
    /\ exitCode' = 0
    /\ UNCHANGED <<Fixed, wt, git, calls, issued, writes, out>>

\* a missing gh treated as an error
PrManual_fatal ==
    /\ pc = "pr"
    /\ ~args.no_pr
    /\ ~env.gh
    /\ Die("warn: GitHub CLI not found, open a PR manually for branch")
    /\ UNCHANGED <<Fixed, loc, wt, git, calls, issued, writes>>

\* gh is not on PATH: print the branch name
PrManual ==
    /\ pc = "pr"
    /\ ~args.no_pr
    /\ ~env.gh
    /\ Return("warn: GitHub CLI not found, open a PR manually for branch")
    /\ UNCHANGED <<Fixed, loc, wt, git, calls, issued, writes>>

-----------------------------------------------------------------------------
(* The operator runs the script again, same arguments, same checkout *)

Reinvoke ==
    /\ pc = "exit"
    /\ runs < MaxRuns
    /\ runs' = runs + 1
    /\ snap' = [wt |-> wt, git |-> git,
                prev |-> <<[exitCode |-> exitCode, issued |-> issued, calls |-> calls]>>]
    /\ pc' = StartPc(variant)
    /\ loc' = NoLoc
    /\ calls' = <<>>
    /\ issued' = <<>>
    /\ writes' = <<>>
    /\ out' = <<>>
    /\ exitCode' = -1
    /\ UNCHANGED <<variant, args, env, wt, git>>

Next ==
    \/ ConanDetectFolder
    \/ ConanTarballUrl
    \/ ConanComputeSha
    \/ GitCheckoutMaster
    \/ GitFetch
    \/ GitRebase
    \/ GitPushTrunk
    \/ GitCheckoutNewBranch
    \/ ConanUpdateConandata
    \/ ConanUpdateConfig
    \/ ConanBuild
    \/ ConanGitAdd
    \/ ConanCommit
    \/ VcpkgReadPortfile
    \/ VcpkgFetchSha
    \/ VcpkgEditJson
    \/ VcpkgEditPortfile
    \/ VcpkgCommitPort
    \/ VcpkgClean
    \/ VcpkgInstall
    \/ VcpkgXAddVersion
    \/ VcpkgCommitXAdd
    \/ GitPushBranch
    \/ PrSkipped
    \/ PrWriteBody
    \/ PrCreate
    \/ PrUnlink
    \/ PrManual
    \/ Reinvoke

Spec == Init /\ [][Next]_vars

-----------------------------------------------------------------------------
(* The metadata editor on its own: any sequence of calls *)

EditorUrls == {UrlTgz, UrlZip}

EditorDigests == {Digest("sha256", UrlTgz), Digest("sha256", UrlZip)}

EditorInit ==
    /\ variant = "editor"
    /\ args = NoArgs
    /\ env = [gh |-> FALSE, upstream |-> YamlTree(NoConandata, NoConfig)]
    /\ pc = "editor"
    /\ loc = NoLoc
    /\ wt \in {YamlTree(Conandata(m), c) : m \in InitSources, c \in InitConfigs}
    /\ git = Repo(wt, {})
    /\ calls = <<>>
    /\ issued = <<>>
    /\ writes = <<>>
    /\ out = <<>>
    /\ exitCode = -1
    /\ runs = 0
    /\ snap = [wt |-> wt, git |-> git, prev |-> <<>>]

EditorUpdateConandata(version, url, sha256) ==
    /\ pc = "editor"
    /\ Len(calls) < MaxCalls
    /\ wt.conandata.exists
    /\ LET r == update_conandata(wt.conandata, version, url, sha256)
       IN  /\ wt' = [wt EXCEPT !.conandata = r.data]
           /\ calls' = Append(calls, CallRec("update_conandata", version, url, sha256,
                                             r, wt.conandata.sources))
    /\ UNCHANGED <<variant, args, env, pc, loc, git, issued, writes, out,
                   exitCode, runs, snap>>

EditorUpdateConfig(version) ==
    /\ pc = "editor"
    /\ Len(calls) < MaxCalls
    /\ LET r == update_config(wt.config, version)
       IN  /\ wt' = [wt EXCEPT !.config = r.data]
           /\ calls' = Append(calls, CallRec("update_config", version, <<>>, NoDigest,
                                             r, wt.config.versions))
    /\ UNCHANGED <<variant, args, env, pc, loc, git, issued, writes, out,
                   exitCode, runs, snap>>

EditorNext ==
    \/ \E v \in Versions, u \in EditorUrls, d \in EditorDigests :
          EditorUpdateConandata(v, u, d)
    \/ \E v \in Versions : EditorUpdateConfig(v)

SpecEditor == EditorInit /\ [][EditorNext]_vars

-----------------------------------------------------------------------------
(* Properties of the metadata editor (SpecEditor) *)

\* two consecutive calls of update_conandata with the same arguments
SameUpsert(a, b) ==
    /\ a.fn = "update_conandata" /\ b.fn = "update_conandata"
    /\ a.version = b.version /\ a.url = b.url /\ a.sha = b.sha

\* what the second of two equal calls must do
SecondIsNoOp(a, b) ==
    /\ a.ret
    /\ ~b.ret
    /\ ~b.wrote
    /\ b.doc = a.doc

\* C1 as stated: for any sources document and any version V, two calls of
\* update_conandata with the same V, url and digest return True then False,
\* the second writes nothing and leaves the document as the first left it.
C1_AnyDocument ==
    \A i \in 1..(Len(calls) - 1) :
        SameUpsert(calls[i], calls[i + 1]) => SecondIsNoOp(calls[i], calls[i + 1])

\* C1 amended: the same, for a sources document that does not already hold V
\* as a string key when the first call is made.
C1_IdempotentUpsert ==
    \A i \in 1..(Len(calls) - 1) :
        /\ SameUpsert(calls[i], calls[i + 1])
        /\ ~HasKey(calls[i].before, DoubleQuotedScalarString(calls[i].version))
        => SecondIsNoOp(calls[i], calls[i + 1])

C1_Witness ==
    \E i \in 1..(Len(calls) - 1) :
        /\ SameUpsert(calls[i], calls[i + 1])
        /\ calls[i].before # <<>>
        /\ ~HasKey(calls[i].before, DoubleQuotedScalarString(calls[i].version))
        /\ calls[i].wrote
        /\ wt.conandata = calls[i].doc

\* C2: whenever update_conandata or update_config adds a version X, X is the
\* first key of the resulting mapping and every key that was there before
\* sits exactly one position further down, in the same order.
C2_NewestFirst ==
    \A i \in 1..Len(calls) :
        calls[i].ret =>
            /\ Len(calls[i].after) = Len(calls[i].before) + 1
            /\ calls[i].after[1].key = DoubleQuotedScalarString(calls[i].version)
            /\ \A j \in 1..Len(calls[i].before) :
                   calls[i].after[j + 1].key = calls[i].before[j].key

C2_Witness ==
    /\ \E i \in 1..Len(calls) :
          /\ calls[i].fn = "update_conandata" /\ calls[i].ret
          /\ Len(calls[i].before) >= 2
    /\ \E i \in 1..Len(calls) :
          /\ calls[i].fn = "update_config" /\ calls[i].ret
          /\ Len(calls[i].before) >= 2

UniqueKeys(m) == \A i, j \in 1..Len(m) : m[i].key = m[j].key => i = j

\* C3: after any sequence of update_conandata / update_config calls, repeats
\* included, no key occurs twice in the sources mapping nor in the companion
\* index.
C3_UniqueVersions ==
    /\ UniqueKeys(wt.conandata.sources)
    /\ UniqueKeys(wt.config.versions)

C3_Witness ==
    /\ \E i, j \in 1..Len(calls) :
          /\ i < j
          /\ calls[i].fn = calls[j].fn
          /\ calls[i].version = calls[j].version
          /\ calls[i].ret
          /\ ~calls[j].ret
    /\ \E i \in 1..Len(calls) : calls[i].fn = "update_config" /\ calls[i].ret
    /\ Len(wt.conandata.sources) >= 2

-----------------------------------------------------------------------------
(* Properties of the workflows (Spec) *)

Ran(c) == \E i \in 1..Len(issued) : issued[i].cmd = c

Succeeded(c) == \E i \in 1..Len(issued) : issued[i].cmd = c /\ issued[i].ok

Failed(c) == \E i \in 1..Len(issued) : issued[i].cmd = c /\ ~issued[i].ok

\* update_conandata reported that the version is already there
AlreadyPresent ==
    \E i \in 1..Len(calls) : calls[i].fn = "update_conandata" /\ ~calls[i].ret

Branch == BranchName(args.version)

\* the new branch is on the push remote with the commits it has locally
BranchPublished == git.origin[Branch] = [has |-> TRUE, log |-> git.log[Branch]]

\* messages of the fatal paths that are not a failed command
FatalMessages ==
    {"error: conandata.yml not found", "no sources block",
     "unrecognisable version pattern", "urlopen failed", "FileNotFoundError",
     "error: could not find REPO line"}

Died == \E i \in 1..Len(out) : out[i] \in FatalMessages

\* the environment did not get in the way: every command that failed was
\* one the repository forced to fail, and the download worked
EnvCooperated ==
    /\ \A i \in 1..Len(issued) : ~issued[i].ok => issued[i].forced
    /\ \A i \in 1..Len(out) : out[i] # "urlopen failed"

\* C4: in a run in which update_conandata reports that the version already
\* exists, no file is written, no build, commit, push or PR command follows
\* (the last command is the git checkout -b before the edit), no commit is
\* created, and the run ends with exit code 0.
C4_AlreadyPresentStops ==
    AlreadyPresent =>
        /\ pc = "exit"
        /\ exitCode = 0
        /\ writes = <<>>
        /\ \A c \in {"conan create", "git add", "git commit", "git push -u",
                     "gh pr create"} : ~Ran(c)
        /\ issued # <<>>
        /\ issued[Len(issued)].cmd = "git checkout -b"
        /\ git.log = snap.git.log
        /\ git.origin[Branch] = snap.git.origin[Branch]

C4_Witness ==
    /\ AlreadyPresent
    /\ pc = "exit"
    /\ Succeeded("git checkout -b")
    /\ wt.config.exists

\* the previous invocation added the entry, committed, pushed and exited 0
PrevSucceeded ==
    /\ snap.prev # <<>>
    /\ snap.prev[1].exitCode = 0
    /\ \E i \in 1..Len(snap.prev[1].issued) :
          /\ snap.prev[1].issued[i].cmd = "git push -u"
          /\ snap.prev[1].issued[i].ok

\* C5 as stated: after a successful run for P and V, running the workflow
\* again with the same P and V aborts with AlreadyPresent (exit 0), changes
\* no document and creates no second commit.
C5_RerunAlreadyPresent ==
    (PrevSucceeded /\ pc = "exit" /\ EnvCooperated) =>
        /\ AlreadyPresent
        /\ exitCode = 0
        /\ writes = <<>>
        /\ git.log = snap.git.log

\* C5 amended: after a successful run for P and V, running the workflow
\* again with the same P and V never reaches the metadata editor: it ends
\* with a non-zero exit, at git checkout -b (the branch exists) unless
\* something fails earlier; it writes no document, creates no second commit
\* and leaves the pushed branch as it was.
C5_RerunStopsAtBranch ==
    (PrevSucceeded /\ pc = "exit") =>
        /\ calls = <<>>
        /\ exitCode = 1
        /\ writes = <<>>
        /\ git.log = snap.git.log
        /\ git.tip[Branch] = snap.git.tip[Branch]
        /\ git.origin[Branch] = snap.git.origin[Branch]
        /\ EnvCooperated =>
              /\ issued # <<>>
              /\ issued[Len(issued)].cmd = "git checkout -b"
              /\ issued[Len(issued)].forced

C5_Witness ==
    /\ PrevSucceeded
    /\ pc = "exit"
    /\ EnvCooperated
    /\ Failed("git checkout -b")
    /\ variant = "conan"

BuildFailed == Failed("conan create") \/ Failed("vcpkg install")

\* C6: in both scripts, when the local build command exits non-zero, the run
\* has created no commit and pushed no branch, every file it edited is still
\* modified in the working tree, and the exit code is non-zero.
C6_BuildFailureBeforeCommit ==
    BuildFailed =>
        /\ pc = "exit"
        /\ exitCode = 1
        /\ git.log = snap.git.log
        /\ git.origin[Branch] = snap.git.origin[Branch]
        /\ writes # <<>>
        /\ \A i \in 1..Len(writes) : writes[i] \in Differing(wt, git.tip[git.head])

SyncBranchCommands ==
    {"git checkout master", "git fetch upstream", "git rebase upstream/master",
     "git push", "git checkout -b"}

SyncOrBranchFailed ==
    \E i \in 1..Len(issued) : issued[i].cmd \in SyncBranchCommands /\ ~issued[i].ok

\* C7: in both scripts, when a command of SYNC or BRANCH fails (git checkout
\* -b on an existing branch included), the run ends with a non-zero exit, no
\* file has been written, no commit has been created, and a branch of the
\* target name that existed before is still what it was.
C7_SyncBranchFailureBeforeEdit ==
    SyncOrBranchFailed =>
        /\ pc = "exit"
        /\ exitCode = 1
        /\ writes = <<>>
        /\ calls = <<>>
        /\ git.log = snap.git.log
        /\ Branch \in snap.git.branches =>
              /\ Branch \in git.branches
              /\ git.tip[Branch] = snap.git.tip[Branch]

C7_Witness ==
    /\ Failed("git checkout -b")
    /\ issued[Len(issued)].forced
    /\ Branch \in snap.git.branches
    /\ git.tip[Master] # git.tip[Branch]
    /\ pc = "exit"

\* C8: in both scripts, a command that exits non-zero is the last command
\* of the run, no file is written after it, and the exit code is non-zero;
\* a run that ends with no failed command and no fatal error exits with 0.
C8_FailFast ==
    /\ \A i \in 1..Len(issued) :
          ~issued[i].ok =>
              /\ i = Len(issued)
              /\ issued[i].nw = Len(writes)
              /\ pc = "exit"
              /\ exitCode = 1
    /\ (pc = "exit" /\ ~Died /\ \A i \in 1..Len(issued) : issued[i].ok)
          => exitCode = 0

C8_Witness ==
    /\ \E i \in 1..Len(issued) : ~issued[i].ok /\ ~issued[i].forced
    /\ writes # <<>>
    /\ git.log # snap.git.log
    /\ pc = "exit"

\* C9: in both scripts, when the run reaches the PR stage and gh is not on
\* PATH, no gh command is issued, the message that names the branch is
\* printed, the pushed branch keeps its commits, and the exit code is 0.
C9_ForgeUnavailable ==
    (pc = "exit" /\ Succeeded("git push -u") /\ ~args.no_pr /\ ~env.gh) =>
        /\ ~Ran("gh pr create")
        /\ out # <<>>
        /\ out[Len(out)] = "warn: GitHub CLI not found, open a PR manually for branch"
        /\ exitCode = 0
        /\ BranchPublished
        /\ git.log[Branch] # <<>>

C9_Witness ==
    /\ pc = "exit"
    /\ Succeeded("git push -u")
    /\ ~args.no_pr
    /\ ~env.gh
    /\ variant = "vcpkg"

\* C10 as stated: when gh is available but gh pr create exits non-zero, the
\* branch stays pushed and the run ends with exit code 0.
C10_PrFailureExitsZero ==
    Failed("gh pr create") =>
        /\ BranchPublished
        /\ pc = "exit"
        /\ exitCode = 0

\* C10 amended: when gh is available but gh pr create exits non-zero, the
\* branch stays pushed with its commits, and the run ends with a non-zero
\* exit code (the temporary body file is left behind).
C10_PrFailureKeepsBranch ==
    Failed("gh pr create") =>
        /\ BranchPublished
        /\ git.log[Branch] # <<>>
        /\ pc = "exit"
        /\ exitCode = 1
        /\ loc.tmp

C10_Witness ==
    /\ Failed("gh pr create")
    /\ pc = "exit"
    /\ git.head = Branch

\* the content the EDIT stage wrote is what the working tree holds
EditedContentKept ==
    IF variant = "conan"
    THEN /\ HasKey(wt.conandata.sources, DoubleQuotedScalarString(args.version))
         /\ Lookup(wt.conandata.sources, DoubleQuotedScalarString(args.version))
               = [url |-> loc.tarball_url, sha256 |-> loc.sha]
         /\ (\E i \in 1..Len(writes) : writes[i] = "config") =>
               HasKey(wt.config.versions, DoubleQuotedScalarString(args.version))
    ELSE /\ wt.vcpkg_json = args.version
         /\ wt.portfile.shaLine => wt.portfile.sha512 = loc.sha

BumpCommitted ==
    /\ \E i \in 1..Len(git.log[Branch]) : git.log[Branch][i] = BumpMsg(args.version)
    /\ Len(git.log[Branch]) > Len(snap.git.log[Master])

CommitFailed ==
    \/ Failed("git add")
    \/ Failed("git commit")
    \/ Failed("git commit -am bump")
    \/ Failed("git commit -am x-add")

\* C11: nothing is rolled back. After a failed push the commits of the run
\* are still on the new branch and the edited files keep their edited
\* content; after a failed commit or build the written entry is still in the
\* file and the new branch still exists (and is checked out).
C11_NoRollback ==
    /\ Failed("git push -u") =>
          /\ Branch \in git.branches
          /\ BumpCommitted
          /\ git.tip[Branch] = wt
          /\ EditedContentKept
    /\ (CommitFailed \/ BuildFailed) =>
          /\ Branch \in git.branches
          /\ git.head = Branch
          /\ writes # <<>>
          /\ EditedContentKept
    /\ (Failed("git commit -am x-add") \/ Failed("vcpkg install")) => BumpCommitted

C11_Witness ==
    /\ Failed("git push -u")
    /\ ~issued[Len(issued)].forced
    /\ pc = "exit"
    /\ variant = "conan"
    /\ git.tip[Branch] # git.tip[Master]

\* the versions mapping m after the node o got the content f
ChangeNode(m, o, f) ==
    [j \in 1..Len(m) |->
        IF m[j].val.obj = o THEN [m[j] EXCEPT !.val.folder = f] ELSE m[j]]

ConfigAdded(c) == c.fn = "update_config" /\ c.ret

\* C12: when update_config adds a version to a versions mapping that has
\* entries and lacks it, the new entry is first, its value has the content
\* of the entry that was first before the call, it is a node of its own
\* (changing either record leaves the other as it was), and every entry
\* that was there keeps its key and value.
C12_CompanionInheritance ==
    \A i \in 1..Len(calls) :
        ConfigAdded(calls[i]) =>
            LET b == calls[i].before
                a == calls[i].after
            IN  /\ b # <<>>
                /\ Len(a) = Len(b) + 1
                /\ a[1].key = DoubleQuotedScalarString(calls[i].version)
                /\ a[1].val.folder = b[1].val.folder
                /\ \A j \in 1..Len(b) : a[j + 1] = b[j]
                /\ ChangeNode(a, a[1].val.obj, "changed")[2] = a[2]
                /\ ChangeNode(a, a[2].val.obj, "changed")[1] = a[1]

C12_Witness ==
    \E i \in 1..Len(calls) :
        /\ ConfigAdded(calls[i])
        /\ Len(calls[i].before) = 2
        /\ calls[i].before[1].val.folder # calls[i].before[2].val.folder
        /\ wt.config.versions = calls[i].after

\* the messages update_config prints with the [warn] prefix
Warnings == {"warn-not-found", "warn-empty"}

\* this step is a call of update_config on a companion index that is absent
\* or has no entries; c is the record of that call
CompanionSkipStep(c) ==
    /\ calls' = Append(calls, c)
    /\ c.fn = "update_config"
    /\ ~wt.config.exists \/ wt.config.versions = <<>>

\* what both skip cases share: nothing is written, no file and no record
\* appears, and the sources document is what it was
CompanionSkipFrame(c) ==
    /\ ~c.ret
    /\ ~c.wrote
    /\ wt'.config = wt.config
    /\ wt'.conandata = wt.conandata
    /\ writes' = writes

\* C13 as stated: on an index with no entries update_config writes nothing,
\* makes up no record and warns; on an absent index it creates no file and
\* prints no warning; the sources document is unaffected in both cases.
C13_SkipSilently ==
    [][\A c \in {calls'[Len(calls')]} :
          CompanionSkipStep(c) =>
              /\ CompanionSkipFrame(c)
              /\ wt.config.exists => c.msg = "warn-empty"
              /\ ~wt.config.exists => c.msg \notin Warnings]_vars

\* C13 amended: as above, but on an absent index update_config prints the
\* "[warn] ... not found" message before it returns False.
C13_SkipWithWarning ==
    [][\A c \in {calls'[Len(calls')]} :
          CompanionSkipStep(c) =>
              /\ CompanionSkipFrame(c)
              /\ wt.config.exists => c.msg = "warn-empty"
              /\ ~wt.config.exists => c.msg = "warn-not-found"]_vars

C13_Witness ==
    /\ Len(calls) = 2
    /\ calls[1].fn = "update_conandata" /\ calls[1].ret
    /\ calls[2].fn = "update_config" /\ calls[2].msg = "warn-not-found"
    /\ ~wt.config.exists
    /\ wt.conandata = calls[1].doc

-----------------------------------------------------------------------------
(* The URL deriver on its own: derive from a document, then derive again
   from a document whose first entry holds the URL just derived *)

\* how many times in a row the deriver is applied
MaxDerive == 2

\* what a sample URL is put together from
UrlHeads ==
    {<<"h", "/">>,
     <<"h", "/", "2", ".", "3", ".", "4", "/">>,
     <<"h", "/", "2", ".", "3", ".", "4", ".", "z", "i", "p", "/">>,
     <<"h", "7", "/", "1", ".">>}

UrlTags == {<<>>, <<"v">>}

UrlVersions ==
    {<<>>,
     <<"7">>,
     <<"1", ".", "0">>,
     <<"1", ".", "0", ".", "0">>,
     <<"1", ".", "0", ".", "0", "-", "b">>,
     <<"1", "2", ".", "3", ".", "4", "5">>}

UrlTails ==
    {<<>>,
     <<"/", "a">>,
     <<".", "t", "g", "z">>,
     <<".", "z", "i", "p">>,
     <<".", "t", "a", "r", ".", "g", "z">>}

DeriveUrls ==
    {h \o t \o v \o e : h \in UrlHeads, t \in UrlTags, v \in UrlVersions, e \in UrlTails}

\* the values of the version argument: 1.0.1, 1.0, 2.0.0-rc, v2.0.0, dev
NewVersions ==
    {V101, V10,
     <<"2", ".", "0", ".", "0", "-", "r", "c">>,
     <<"v", "2", ".", "0", ".", "0">>,
     <<"d", "e", "v">>}

\* versions a later run may ask for: the ones above and the ones in URLs
LaterVersions == NewVersions \cup (UrlVersions \ {<<>>}) \cup {<<"2", ".", "3", ".", "4">>}

\* the document whose first sources entry has the URL u
SampleDoc(u) == Conandata(<<Pair(DoubleQuotedScalarString(V100), Entry(u))>>)

DeriveRec(data, new_version, r) ==
    [fn |-> "derive_tarball_url",
     sources |-> data.sources,
     version |-> new_version,
     ok |-> r.ok, result |-> r.url, err |-> r.err]

DeriveInit ==
    /\ variant = "derive"
    /\ args \in {[NoArgs EXCEPT !.version = v] : v \in NewVersions}
    /\ env = [gh |-> FALSE, upstream |-> YamlTree(NoConandata, NoConfig)]
    /\ pc = "tarball_url"
    /\ loc = NoLoc
    /\ wt \in {YamlTree(d, NoConfig) :
                  d \in {Conandata(<<>>)} \cup {SampleDoc(u) : u \in DeriveUrls}}
    /\ git = Repo(wt, {})
    /\ calls = <<>>
    /\ issued = <<>>
    /\ writes = <<>>
    /\ out = <<>>
    /\ exitCode = -1
    /\ runs = 0
    /\ snap = [wt |-> wt, git |-> git, prev |-> <<>>]

\* tarball_url = derive_tarball_url(load_yaml(conandata), args.version);
\* the RuntimeError ends the process
DeriveFirst ==
    /\ pc = "tarball_url"
    /\ calls = <<>>
    /\ LET r == derive_tarball_url(wt.conandata, args.version)
       IN  /\ calls' = <<DeriveRec(wt.conandata, args.version, r)>>
           /\ loc' = [loc EXCEPT !.tarball_url = r.url]
           /\ IF r.ok
              THEN UNCHANGED <<pc, exitCode, out>>
              ELSE /\ pc' = "exit"
                   /\ exitCode' = 1
                   /\ out' = Append(out, r.err)
    /\ UNCHANGED <<variant, args, env, wt, git, issued, writes, runs, snap>>

\* a later derivation, from the document that now starts with the entry of
\* the URL derived last
DeriveAgain(new_version) ==
    /\ pc = "tarball_url"
    /\ calls # <<>>
    /\ Len(calls) < MaxDerive
    /\ LET data == SampleDoc(loc.tarball_url)
           r == derive_tarball_url(data, new_version)
       IN  /\ calls' = Append(calls, DeriveRec(data, new_version, r))
           /\ wt' = [wt EXCEPT !.conandata = data]
           /\ args' = [args EXCEPT !.version = new_version]
           /\ loc' = [loc EXCEPT !.tarball_url = r.url]
           /\ IF r.ok
              THEN UNCHANGED <<pc, exitCode, out>>
              ELSE /\ pc' = "exit"
                   /\ exitCode' = 1
                   /\ out' = Append(out, r.err)
    /\ UNCHANGED <<variant, env, git, issued, writes, runs, snap>>

DeriveNext ==
    \/ DeriveFirst
    \/ \E v \in LaterVersions : DeriveAgain(v)

SpecDerive == DeriveInit /\ [][DeriveNext]_vars

-----------------------------------------------------------------------------
(* Properties of the URL deriver (SpecDerive) *)

Extensions == {<<".", "z", "i", "p">>, <<".", "t", "a", "r", ".", "g", "z">>}

AllDigits(t) == t # <<>> /\ \A i \in 1..Len(t) : t[i] \in Digit

\* t reads as three numeric groups joined by dots, then characters of the
\* pre-release class (which has no dot: t has exactly two)
ThreeGroups(t) ==
    LET dots == {x \in 1..Len(t) : t[x] = "."}
    IN  /\ Cardinality(dots) = 2
        /\ LET i == SetMin(dots)
               j == SetMax(dots)
           IN  /\ AllDigits(SubSeq(t, 1, i - 1))
               /\ AllDigits(SubSeq(t, i + 1, j - 1))
               /\ j < Len(t)
               /\ t[j + 1] \in Digit
               /\ \A l \in (j + 1)..Len(t) : t[l] \in SuffixCh

\* u[a..b] is a version, with the "v" before it if there is one; anchored:
\* an archive extension comes right after it
IsSpan(u, a, b, anchored) ==
    /\ a <= b
    /\ ThreeGroups(SubSeq(u, IF u[a] = "v" THEN a + 1 ELSE a, b))
    /\ anchored => \E e \in Extensions :
                       /\ b + Len(e) <= Len(u)
                       /\ SubSeq(u, b + 1, b + Len(e)) = e

Spans(u, anchored) ==
    {s \in {a \in 1..Len(u) : u[a] \in Digit \cup {"v"}} \X (1..Len(u)) :
        IsSpan(u, s[1], s[2], anchored)}

\* the first span of S: the leftmost start, and the longest from there
FirstSpan(S) ==
    CHOOSE s \in S : \A t \in S : s[1] < t[1] \/ (s[1] = t[1] /\ s[2] >= t[2])

\* the span the description selects in u (u has one)
Selected(u) ==
    IF Spans(u, TRUE) # {} THEN FirstSpan(Spans(u, TRUE)) ELSE FirstSpan(Spans(u, FALSE))

\* u with the version in span s replaced by new_version, the "v" kept
Substituted(u, s, new_version) ==
    SubSeq(u, 1, s[1] - 1)
    \o (IF u[s[1]] = "v" THEN <<"v">> ELSE <<>>)
    \o new_version
    \o SubSeq(u, s[2] + 1, Len(u))

\* the version text of span s, without the "v"
VersionOf(u, s) == SubSeq(u, IF u[s[1]] = "v" THEN s[1] + 1 ELSE s[1], s[2])

SampleUrl(c) == c.sources[1].val.url


\* calls[i] derived from a URL with an extension-anchored version
AnchoredCall(i) ==
    /\ calls[i].sources # <<>>
    /\ Spans(SampleUrl(calls[i]), TRUE) # {}

\* calls[i + 1] asks for the version that calls[i] replaced
AsksBack(i) ==
    /\ i < Len(calls)
    /\ calls[i + 1].version
          = VersionOf(SampleUrl(calls[i]), FirstSpan(Spans(SampleUrl(calls[i]), TRUE)))

\* C14 as stated: for a URL u with a version v1 right before an archive
\* extension and every new version v2, derive(u, v2) differs from u only in
\* the matched span, and derive(derive(u, v2), v1) is u.
C14_RoundTripAnyVersion ==
    \A i \in 1..Len(calls) :
        AnchoredCall(i) =>
            LET u == SampleUrl(calls[i])
            IN  /\ calls[i].ok
                /\ calls[i].result
                      = Substituted(u, FirstSpan(Spans(u, TRUE)), calls[i].version)
                /\ AsksBack(i) => (calls[i + 1].ok /\ calls[i + 1].result = u)

\* C14 amended: derive(u, v2) differs from u only in the matched span for
\* every v2; derive(derive(u, v2), v1) is u when v2 is itself three numeric
\* groups with an optional pre-release suffix and no leading "v".
C14_RoundTripThreeGroups ==
    \A i \in 1..Len(calls) :
        AnchoredCall(i) =>
            LET u == SampleUrl(calls[i])
            IN  /\ calls[i].ok
                /\ calls[i].result
                      = Substituted(u, FirstSpan(Spans(u, TRUE)), calls[i].version)
                /\ (AsksBack(i) /\ ThreeGroups(calls[i].version)) =>
                      (calls[i + 1].ok /\ calls[i + 1].result = u)

C14_Witness ==
    /\ Len(calls) = 2
    /\ AnchoredCall(1)
    /\ AsksBack(1)
    /\ ThreeGroups(calls[1].version)
    /\ calls[1].version # calls[2].version
    /\ SampleUrl(calls[1])[FirstSpan(Spans(SampleUrl(calls[1]), TRUE))[1]] = "v"
    /\ Spans(SampleUrl(calls[1]), FALSE) # Spans(SampleUrl(calls[1]), TRUE)
    /\ calls[2].result = SampleUrl(calls[1])

PreEditMessages ==
    {"no sources block", "unrecognisable version pattern", "urlopen failed",
     "error: could not find REPO line"}

PreEditFailed == \E i \in 1..Len(out) : out[i] \in PreEditMessages

\* C15: in both scripts, when the tarball URL cannot be worked out (no
\* version pattern, no sources, no REPO line) or the download fails, the run
\* ends with a non-zero exit, and no metadata, companion or port file has
\* been written and no commit has been created by the run.
C15_PreEditFailureWritesNothing ==
    PreEditFailed =>
        /\ pc = "exit"
        /\ exitCode = 1
        /\ writes = <<>>
        /\ calls = <<>>
        /\ git.log = snap.git.log
        /\ variant = "conan" => (wt = snap.wt /\ git = snap.git)
        /\ variant = "vcpkg" => wt = git.tip[git.head]

C15_Witness ==
    /\ variant = "vcpkg"
    /\ PreEditFailed
    /\ out[Len(out)] = "urlopen failed"
    /\ git.head = Branch
    /\ git.tip[Master] # snap.git.tip[Master]

\* this step is a call of update_conandata that added an entry; c is the
\* record of that call
SourcesAddedStep(c) ==
    /\ calls' = Append(calls, c)
    /\ c.fn = "update_conandata"
    /\ c.ret

\* C16: when update_conandata adds a version, every entry that was in the
\* sources mapping is still there with the same key, url and digest (one
\* place further down), and the sibling blocks of the document (patches)
\* and the companion index are what they were.
C16_InsertionFrame ==
    [][\A c \in {calls'[Len(calls')]} :
          SourcesAddedStep(c) =>
              /\ Len(wt'.conandata.sources) = Len(wt.conandata.sources) + 1
              /\ \A j \in 1..Len(wt.conandata.sources) :
                    wt'.conandata.sources[j + 1] = wt.conandata.sources[j]
              /\ wt'.conandata.patches = wt.conandata.patches
              /\ wt'.conandata.exists
              /\ wt'.config = wt.config]_vars

C16_Witness ==
    /\ calls # <<>>
    /\ calls[Len(calls)].fn = "update_conandata"
    /\ calls[Len(calls)].ret
    /\ Len(calls[Len(calls)].before) = 2
    /\ wt.conandata.sources = calls[Len(calls)].after
    /\ wt.conandata.patches = "p0"

\* C17: derive replaces the first version that an archive extension follows
\* when the URL has one, else the first version anywhere; the result is the
\* text before the span, a "v" exactly when the span began with "v", the new
\* version, and the text after the span (so an earlier version-like segment
\* stays as it is when an extension-anchored one exists).
C17_MatchSelection ==
    \A i \in 1..Len(calls) :
        (calls[i].sources # <<>> /\ Spans(SampleUrl(calls[i]), FALSE) # {}) =>
            LET u == SampleUrl(calls[i])
            IN  /\ calls[i].ok
                /\ calls[i].result = Substituted(u, Selected(u), calls[i].version)

C17_Witness ==
    /\ calls # <<>>
    /\ calls[1].ok
    /\ Spans(SampleUrl(calls[1]), TRUE) # {}
    /\ Selected(SampleUrl(calls[1]))[1] > FirstSpan(Spans(SampleUrl(calls[1]), FALSE))[1]
    /\ SampleUrl(calls[1])[Selected(SampleUrl(calls[1]))[1]] = "v"
    /\ calls[1].result # SampleUrl(calls[1])

\* u has a substring of one or more dot-separated numeric groups: a single
\* digit is one already
HasNumericGroup(u) == \E k \in 1..Len(u) : u[k] \in Digit

\* C18 as stated: derive fails with PatternNotFound only for a URL without
\* any substring of one or more dot-separated numeric groups ("7" and "1.2"
\* count); for every URL that has one, derive returns a URL.
C18_FailsOnlyWithoutDigits ==
    \A i \in 1..Len(calls) :
        calls[i].sources # <<>> =>
            /\ HasNumericGroup(SampleUrl(calls[i])) => calls[i].ok
            /\ ~calls[i].ok => calls[i].err = "unrecognisable version pattern"

\* C18 amended: derive fails with the unrecognisable-pattern error exactly
\* when the URL has no substring of three dot-separated numeric groups
\* (optional "v" before, optional pre-release suffix after); for every URL
\* that has one, derive returns a URL.
C18_FailsWithoutThreeGroups ==
    \A i \in 1..Len(calls) :
        calls[i].sources # <<>> =>
            /\ calls[i].ok <=> Spans(SampleUrl(calls[i]), FALSE) # {}
            /\ ~calls[i].ok => calls[i].err = "unrecognisable version pattern"

C18_Witness ==
    /\ calls # <<>>
    /\ calls[1].sources # <<>>
    /\ ~calls[1].ok
    /\ HasNumericGroup(SampleUrl(calls[1]))
    /\ \E e \in Extensions : \E k \in 1..Len(SampleUrl(calls[1])) :
          StartsWith(SampleUrl(calls[1]), k, e)
    /\ pc = "exit"
    /\ exitCode = 1

\* the files the EDIT stage wrote with a content the trunk does not have
EditChanged ==
    {f \in Files : /\ \E i \in 1..Len(writes) : writes[i] = f
                   /\ wt[f] # git.tip[Master][f]}

BumpCommits ==
    {i \in 1..Len(git.log[Branch]) : git.log[Branch][i] = BumpMsg(args.version)}

\* C19: in a run that reaches COMMIT after EDIT changed something (and in
\* which no command fails for a reason outside the repository), the paths
\* staged for the bump commit are the files EDIT wrote, a companion index
\* that was skipped is not among them, and exactly one bump commit with the
\* message of the recipe and version is created.
C19_CommitStagesWhatEditWrote ==
    (EnvCooperated /\ EditChanged # {}) =>
        /\ Ran("git add") =>
              /\ Succeeded("git add")
              /\ Differing(git.index, git.tip[Master]) = EditChanged
        /\ (Ran("git commit") \/ Ran("git commit -am bump")) =>
              /\ Cardinality(BumpCommits) = 1
              /\ Differing(git.tip[Branch], git.tip[Master]) \ {"versiondb"}
                    = EditChanged

\* the stage a command belongs to: SYNC 1, BRANCH 2, BUILD 4, COMMIT 5
\* (the version database commit included), PUSH 6, PR 7; EDIT (3) issues
\* no command
StageOf(cmd) ==
    IF cmd \in SyncBranchCommands \ {"git checkout -b"} THEN 1
    ELSE IF cmd = "git checkout -b" THEN 2
    ELSE IF cmd \in {"conan create", "rm -rf", "vcpkg install"} THEN 4
    ELSE IF cmd \in {"git add", "git commit", "git commit -am bump",
                     "vcpkg x-add-version", "git commit -am x-add"} THEN 5
    ELSE IF cmd = "git push -u" THEN 6
    ELSE 7

\* the URL has been derived from the metadata, or the download was tried
DerivedOrFetched ==
    \/ loc.tarball_url # <<>> /\ ~args.repo_url
    \/ loc.sha # NoDigest
    \/ PreEditFailed

\* C20: the stages run in the order SYNC, BRANCH, EDIT, BUILD, COMMIT, PUSH,
\* PR, each after the one before succeeded: the URL is derived and the
\* archive fetched only after git checkout -b succeeded, no file is written
\* before that, no commit exists before the build succeeded, and the
\* commands are issued in stage order.
C20_StageOrder ==
    /\ DerivedOrFetched => Succeeded("git checkout -b")
    /\ writes # <<>> => Succeeded("git checkout -b")
    /\ git.log # snap.git.log =>
          \/ variant = "conan" /\ args.no_build
          \/ Succeeded("conan create")
          \/ Succeeded("vcpkg install")
    /\ \A i, j \in 1..Len(issued) :
          i < j => (issued[i].ok /\ StageOf(issued[i].cmd) <= StageOf(issued[j].cmd))

\* C21: a run that ends in AlreadyPresent leaves the repository as it was
\* when the run began - the set of local branches, the checked-out branch and
\* the commits are unchanged - and leaves every document unchanged.
C21_AlreadyPresentLeavesRepository ==
    AlreadyPresent =>
        /\ git.branches = snap.git.branches
        /\ git.head = snap.git.head
        /\ git.log = snap.git.log
        /\ writes = <<>>

\* the entries update_conandata added in this run
AddedEntries ==
    {calls[i].after[1].val : i \in {j \in 1..Len(calls) :
                                       calls[j].fn = "update_conandata" /\ calls[j].ret}}

\* the archive at loc.tarball_url has been downloaded in this run
FetchedThisRun ==
    /\ loc.tarball_url # <<>>
    /\ loc.sha # NoDigest
    /\ \A i \in 1..Len(out) : out[i] # "urlopen failed"

\* C24: every entry the Conan workflow adds to the sources document records
\* as sha256 the digest of the bytes fetched, in the same run, from the URL
\* the same entry records, whether that URL was derived from the first entry
\* or built from --repo-url; no entry is written with the digest of another
\* URL or without a successful fetch.
C24_UrlDigestConsistency ==
    variant = "conan" =>
        \A e \in AddedEntries :
            /\ FetchedThisRun
            /\ e.url = loc.tarball_url
            /\ e.sha256 = loc.sha
            /\ e.sha256 = Digest("sha256", e.url)

C24_Witness ==
    /\ variant = "conan"
    /\ ~args.repo_url
    /\ runs = 2
    /\ \E e \in AddedEntries :
          /\ e.url # wt.conandata.sources[2].val.url
          /\ e.sha256 # wt.conandata.sources[2].val.sha256
    /\ "conandata" \in {writes[i] : i \in 1..Len(writes)}

\* a step that creates a commit
CommitStep == git'.log # git.log

\* C25: in both variants every commit the workflow creates is made while the
\* newly created branch is checked out; the history of the trunk is changed
\* only by the rebase of SYNC, and no other branch than the new one is pushed
\* with a commit of the workflow.
C25_CommitsOnNewBranch ==
    [][/\ CommitStep =>
             /\ Succeeded("git checkout -b")
             /\ git.head = Branch
             /\ git'.head = Branch
             /\ Branch # Master
             /\ \A b \in BranchNames \ {Branch} :
                    git'.log[b] = git.log[b] /\ git'.tip[b] = git.tip[b]
       /\ git'.tip[Master] # git.tip[Master] =>
             /\ pc = "rebase"
             /\ git'.tip[Master] = env.upstream
             /\ git'.log[Master] = git.log[Master]
       /\ \A b \in BranchNames \ {Branch} : git'.origin[b].log = <<>>]_vars

C25_Witness ==
    /\ pc = "exit"
    /\ exitCode = 0
    /\ Succeeded("git push")
    /\ git.origin[Master].has
    /\ BranchPublished
    /\ Len(git.log[Branch]) = 2
    /\ git.log[Master] = <<>>
    /\ git.tip[Master] # git.tip[Branch]

-----------------------------------------------------------------------------
(* scripts/remote.py: main() *)

Colon == ":"

Slash == "/"

\* positions of the character ch in s
Positions(s, ch) == {i \in 1..Len(s) : s[i] = ch}

\* s.split(":", 1) of a string that holds a colon
SplitHost(s) == SubSeq(s, 1, SetMin(Positions(s, Colon)) - 1)

SplitDir(s) == Tail2(s, SetMin(Positions(s, Colon)) + 1)

\* s.endswith("/")
EndsWithSlash(s) == s # <<>> /\ s[Len(s)] = Slash

\* os.path.basename(p): what follows the last "/"
basename(p) ==
    IF Positions(p, Slash) = {} THEN p ELSE Tail2(p, SetMax(Positions(p, Slash)) + 1)

\* os.path.join(a, b) for a relative b
join(a, b) ==
    IF a = <<>> THEN b
    ELSE IF EndsWithSlash(a) THEN a \o b
    ELSE a \o <<Slash>> \o b

\* the directory find_project_root returns when .git is found
ProjectRoot == <<"/", "w", "/", "p">>

\* build_rsync_command(local_path, remote_path): the fixed options are left
\* out, the source has the trailing slash
build_rsync_command(local_path, remote_path) ==
    [src |-> local_path \o <<Slash>>, dst |-> remote_path]

\* f"{remote_host}:{remote_dir}"
RemoteFull(host, dir) == host \o <<Colon>> \o dir

\* the remote_path arguments: "h:/srv/", "h:/srv/app", "h:/srv/my.d",
\* "h:/a.b/c", "nohost", "h:", "h:/v1.0/"
RemotePaths ==
    {<<"h", ":", "/", "s", "r", "v", "/">>,
     <<"h", ":", "/", "s", "r", "v", "/", "a", "p", "p">>,
     <<"h", ":", "/", "s", "r", "v", "/", "m", "y", ".", "d">>,
     <<"h", ":", "/", "a", ".", "b", "/", "c">>,
     <<"n", "o", "h", "o", "s", "t">>,
     <<"h", ":">>,
     <<"h", ":", "/", "v", "1", ".", "0", "/">>}

\* --run: absent, the empty string, a command
RunArgs == {"None", "", "make"}

\* `if args.run:`
Truthy(r) == r \notin {"None", ""}

\* exit statuses an external command can return
Statuses == {0, 1, 255}

RemoteLoc == [remote_host |-> <<>>, remote_dir |-> <<>>, append_needed |-> FALSE]

RemoteInit ==
    /\ variant = "remote"
    /\ args \in [remote_path : RemotePaths, run : RunArgs, dry_run : BOOLEAN]
    /\ env \in [git_dir : BOOLEAN]
    /\ pc = "find_project_root"
    /\ loc = RemoteLoc
    /\ wt = YamlTree(NoConandata, NoConfig)
    /\ git = Repo(wt, {})
    /\ calls = <<>>
    /\ issued = <<>>
    /\ writes = <<>>
    /\ out = <<>>
    /\ exitCode = -1
    /\ runs = 1
    /\ snap = [wt |-> wt, git |-> git, prev |-> <<>>]

\* what no step of remote.py touches
RemoteFixed == <<variant, args, env, wt, git, calls, writes, runs, snap>>

\* subprocess.call(cmd): the command runs, its exit status comes back
call(cmd, status) ==
    issued' = Append(issued, [cmd |-> cmd, ok |-> status = 0, forced |-> FALSE,
                              nw |-> Len(writes)])

\* print(...)
Printed(kind, text) == [kind |-> kind, text |-> text]

\* find_project_root(os.getcwd()); FileNotFoundError: print, sys.exit(1)
RemoteFindRoot ==
    /\ pc = "find_project_root"
    /\ IF env.git_dir
       THEN /\ pc' = "check_colon"
            /\ out' = Append(out, Printed("Project root", ProjectRoot))
            /\ UNCHANGED exitCode
       ELSE /\ pc' = "exit"
            /\ exitCode' = 1
            /\ out' = Append(out, Printed("error", <<>>))
    /\ UNCHANGED <<RemoteFixed, loc, issued>>

\* if ":" not in args.remote_path: sys.exit(1); else split(":", 1)
RemoteSplit ==
    /\ pc = "check_colon"
    /\ IF Positions(args.remote_path, Colon) = {}
       THEN /\ pc' = "exit"
            /\ exitCode' = 1
            /\ out' = Append(out, Printed("error", args.remote_path))
            /\ UNCHANGED loc
       ELSE /\ loc' = [loc EXCEPT !.remote_host = SplitHost(args.remote_path),
                                  !.remote_dir = SplitDir(args.remote_path)]
            /\ pc' = "decide_append"
            /\ UNCHANGED <<exitCode, out>>
    /\ UNCHANGED <<RemoteFixed, issued>>

\* the first two branches of the append decision; the third one asks the
\* remote host
RemoteDecideAppend ==
    /\ pc = "decide_append"
    /\ IF EndsWithSlash(loc.remote_dir)
       THEN /\ loc' = [loc EXCEPT !.append_needed = TRUE]
            /\ pc' = "join"
       ELSE IF Positions(basename(loc.remote_dir), ".") = {}
       THEN /\ loc' = [loc EXCEPT !.append_needed = TRUE]
            /\ pc' = "join"
       ELSE /\ pc' = "remote_is_dir"
            /\ UNCHANGED loc
    /\ UNCHANGED <<RemoteFixed, issued, out, exitCode>>

\* remote_is_dir(remote_host, remote_dir): ssh host "test -d dir"
RemoteIsDir ==
    /\ pc = "remote_is_dir"
    /\ \E status \in Statuses :
          /\ call("ssh test -d", status)
          /\ loc' = [loc EXCEPT !.append_needed = (status = 0)]
    /\ pc' = "join"
    /\ UNCHANGED <<RemoteFixed, out, exitCode>>

\* if append_needed: remote_dir = os.path.join(remote_dir, project_name)
RemoteJoin ==
    /\ pc = "join"
    /\ loc' = IF loc.append_needed
              THEN [loc EXCEPT !.remote_dir = join(@, basename(ProjectRoot))]
              ELSE loc
    /\ pc' = IF args.dry_run THEN "dry_run" ELSE "rsync"
    /\ UNCHANGED <<RemoteFixed, issued, out, exitCode>>

\* the rsync command main() built for the current locals
RsyncCmd == build_rsync_command(ProjectRoot, RemoteFull(loc.remote_host, loc.remote_dir))

\* if args.dry_run: print the commands, sys.exit(0)
RemoteDryRun ==
    /\ pc = "dry_run"
    /\ out' = IF Truthy(args.run)
              THEN out \o <<Printed("Rsync command", RsyncCmd),
                            Printed("Remote run command", loc.remote_dir)>>
              ELSE Append(out, Printed("Rsync command", RsyncCmd))
    /\ pc' = "exit"
    /\ exitCode' = 0
    /\ UNCHANGED <<RemoteFixed, loc, issued>>

\* result = subprocess.call(rsync_cmd); sys.exit(result) when it failed;
\* without --run main() returns
RemoteRsync ==
    /\ pc = "rsync"
    /\ \E status \in Statuses :
          /\ call("rsync", status)
          /\ IF status # 0
             THEN /\ pc' = "exit"
                  /\ exitCode' = status
                  /\ out' = out \o <<Printed("Running", RsyncCmd), Printed("error", <<>>)>>
             ELSE /\ out' = Append(out, Printed("Running", RsyncCmd))
                  /\ IF Truthy(args.run)
                     THEN pc' = "remote_run" /\ UNCHANGED exitCode
                     ELSE pc' = "exit" /\ exitCode' = 0
    /\ UNCHANGED <<RemoteFixed, loc>>

\* sys.exit(run_remote_command(remote_host, f"cd {remote_dir} && {args.run}"))
RemoteRun ==
    /\ pc = "remote_run"
    /\ \E status \in Statuses :
          /\ call("ssh run", status)
          /\ exitCode' = status
    /\ out' = Append(out, Printed("Running remote command", loc.remote_dir))
    /\ pc' = "exit"
    /\ UNCHANGED <<RemoteFixed, loc>>

RemoteNext ==
    \/ RemoteFindRoot
    \/ RemoteSplit
    \/ RemoteDecideAppend
    \/ RemoteIsDir
    \/ RemoteJoin
    \/ RemoteDryRun
    \/ RemoteRsync
    \/ RemoteRun

SpecRemote == RemoteInit /\ [][RemoteNext]_vars

\* the run was given a remote path of a valid form, inside a project
DryRunEnded ==
    /\ variant = "remote"
    /\ args.dry_run
    /\ env.git_dir
    /\ Positions(args.remote_path, Colon) # {}
    /\ pc = "exit"

\* C22: when the sync utility is invoked with --dry-run, for every form of
\* the remote path (ending in "/", basename without a dot, basename with a
\* dot) no external command (rsync or ssh) is executed before the process
\* exits with code zero; it only prints the commands it would run.
C22_DryRunExecutesNothing ==
    DryRunEnded =>
        /\ issued = <<>>
        /\ exitCode = 0
        /\ \E i \in 1..Len(out) : out[i] = Printed("Rsync command", RsyncCmd)

-----------------------------------------------------------------------------
(* checkoutpr.py: cleanup_remote() *)

\* the local branches a checkout may have; "u-b" is f"{user}-{branch}"
CleanupBranches == {"main", "master", "u-b", "dev"}

\* what git rev-parse --abbrev-ref HEAD prints on a detached HEAD
Detached == "HEAD"

\* for fallback in ("main", "master")
Fallbacks == <<"main", "master">>

\* the repository as cleanup_remote sees it
CleanupRepos ==
    {[branches |-> B, head |-> h, remotes |-> R] :
        B \in SUBSET CleanupBranches \ {{}},
        h \in CleanupBranches \cup {Detached},
        R \in SUBSET {"u", "origin"}}

CleanupInit ==
    /\ variant = "cleanup"
    /\ args \in [user : {"u"}, local_branch : {"u-b", "main", "master"}]
    /\ env = [gh |-> FALSE]
    /\ git \in {g \in CleanupRepos : g.head \in g.branches \cup {Detached}}
    /\ pc = "rev_parse"
    /\ loc = [head_branch |-> "", fallback |-> 1]
    /\ wt = YamlTree(NoConandata, NoConfig)
    /\ calls = <<>>
    /\ issued = <<>>
    /\ writes = <<>>
    /\ out = <<>>
    /\ exitCode = -1
    /\ runs = 1
    /\ snap = [wt |-> wt, git |-> git, prev |-> <<>>]

\* what no step of cleanup_remote touches
CleanupFixed == <<variant, args, env, wt, calls, writes, runs, snap>>

\* sh(*cmd): subprocess.run(check=True); on CalledProcessError the process
\* exits with the (non-zero) status of the command
sh(cmd, can, ok, next) == run(cmd, can, ok, next)

\* head_branch = sh("git", "rev-parse", "--abbrev-ref", "HEAD") and the
\* test head_branch == local_branch
CleanupRevParse ==
    /\ pc = "rev_parse"
    /\ \E ok \in BOOLEAN :
          /\ sh("git rev-parse", TRUE, ok,
                IF git.head = args.local_branch THEN "list_fallback" ELSE "delete_branch")
          /\ loc' = IF ok THEN [loc EXCEPT !.head_branch = git.head] ELSE loc
    /\ UNCHANGED <<CleanupFixed, git, out>>

\* exists = sh("git", "branch", "--list", fallback): go on to the checkout,
\* to the next fallback, or (the else of the for) sys.exit(message)
CleanupListFallback ==
    /\ pc = "list_fallback"
    /\ \E ok \in BOOLEAN :
          /\ issued' = Append(issued, [cmd |-> "git branch --list", ok |-> ok,
                                       forced |-> FALSE, nw |-> Len(writes)])
          /\ IF ~ok
             THEN /\ pc' = "exit"
                  /\ exitCode' = 1
                  /\ UNCHANGED <<loc, out>>
             ELSE IF Fallbacks[loc.fallback] \in git.branches
             THEN /\ pc' = "checkout_fallback"
                  /\ UNCHANGED <<loc, out, exitCode>>
             ELSE IF loc.fallback < Len(Fallbacks)
             THEN /\ loc' = [loc EXCEPT !.fallback = @ + 1]
                  /\ UNCHANGED <<pc, out, exitCode>>
             ELSE /\ Die("Neither 'main' nor 'master' exists")
                  /\ UNCHANGED loc
    /\ UNCHANGED <<CleanupFixed, git>>

CheckoutCmd(fallback) ==
    IF fallback = "main" THEN "git checkout main" ELSE "git checkout master"

\* sh("git", "checkout", fallback); break
CleanupCheckout ==
    /\ pc = "checkout_fallback"
    /\ LET fallback == Fallbacks[loc.fallback]
       IN  \E ok \in BOOLEAN :
              /\ sh(CheckoutCmd(fallback), fallback \in git.branches, ok, "delete_branch")
              /\ git' = IF ok THEN [git EXCEPT !.head = fallback] ELSE git
    /\ UNCHANGED <<CleanupFixed, loc, out>>

\* sh("git", "branch", "-D", local_branch): git refuses to delete a branch
\* that does not exist or that is checked out
CleanupDeleteBranch ==
    /\ pc = "delete_branch"
    /\ \E ok \in BOOLEAN :
          /\ sh("git branch -D",
                args.local_branch \in git.branches /\ git.head # args.local_branch,
                ok, "remote_remove")
          /\ git' = IF ok THEN [git EXCEPT !.branches = @ \ {args.local_branch}]
                    ELSE git
    /\ UNCHANGED <<CleanupFixed, loc, out>>

\* sh("git", "remote", "remove", user); main() prints and returns
CleanupRemoveRemote ==
    /\ pc = "remote_remove"
    /\ \E ok \in BOOLEAN :
          /\ ok => args.user \in git.remotes
          /\ issued' = Append(issued, [cmd |-> "git remote remove", ok |-> ok,
                                       forced |-> args.user \notin git.remotes,
                                       nw |-> Len(writes)])
          /\ IF ok
             THEN /\ git' = [git EXCEPT !.remotes = @ \ {args.user}]
                  /\ Return("Remote removed")
             ELSE /\ pc' = "exit"
                  /\ exitCode' = 1
                  /\ UNCHANGED <<git, out>>
    /\ UNCHANGED <<CleanupFixed, loc>>

CleanupNext ==
    \/ CleanupRevParse
    \/ CleanupListFallback
    \/ CleanupCheckout
    \/ CleanupDeleteBranch
    \/ CleanupRemoveRemote

SpecCleanup == CleanupInit /\ [][CleanupNext]_vars

\* HEAD was on local_branch when cleanup_remote was called
StartedOnLocal == snap.git.head = args.local_branch

NoFallback == "main" \notin snap.git.branches /\ "master" \notin snap.git.branches

\* C23: cleanup_remote never deletes the branch HEAD is on: for every local
\* branch name ("main" and "master" included), if HEAD is on local_branch it
\* first checks out main, or master when main does not exist, and exits
\* without deleting anything when neither exists; git branch -D is issued
\* only while HEAD is on another branch than local_branch, and the remote is
\* removed only after the deletion succeeded.
C23_DeleteOffHead ==
    /\ git.head \in git.branches \cup {Detached}
    /\ Ran("git branch -D") => git.head # args.local_branch
    /\ (StartedOnLocal /\ Ran("git branch -D")) =>
          IF "main" \in snap.git.branches
          THEN Succeeded("git checkout main")
          ELSE Succeeded("git checkout master")
    /\ (StartedOnLocal /\ NoFallback /\ pc = "exit") =>
          /\ git = snap.git
          /\ ~Ran("git branch -D")
          /\ ~Ran("git remote remove")
          /\ exitCode = 1
    /\ Ran("git remote remove") => Succeeded("git branch -D")

====
